---- MODULE Spec2Model ----
(***************************************************************************)
(* rdscom: message queueing and RPC on top of Redis lists.                 *)
(*                                                                         *)
(* The model follows src/src/index.ts (createMessageBroker): send, listen  *)
(* with its closure state (worklimit, activeWorkers, isRunning) and the    *)
(* async functions processMessage and stop, sendAndWaitForResponse and     *)
(* listenAndRespond.  Every `await` of the source is a point where other   *)
(* callbacks of the event loop may run, so each async function is cut into *)
(* one action per synchronous segment.                                     *)
(*                                                                         *)
(* The Redis server is the external collaborator: a key holds a list,      *)
(* RPUSH appends, BLPOP takes the head of the first non-empty key it names *)
(* or blocks, DEL removes the key.  A blocked BLPOP is served by the store *)
(* as soon as one of its keys holds an item; which of several blocked      *)
(* clients is served is left open.                                         *)
(***************************************************************************)
EXTENDS Bags, FiniteSets, Integers, Sequences, TLC

(***************************************************************************)
(* Bounds of the model.                                                    *)
(***************************************************************************)
MaxLimit == 2          \* setWorklimit / initialWorklimit arguments are 0..MaxLimit
MaxSends == 2          \* items appended to a channel key in one behaviour
MaxImmediates == 2     \* pending setImmediate(processMessage) callbacks per pool
MaxStoreErrors == 1    \* store commands that fail in one behaviour
MaxThrows == 1         \* handler and errorHandler invocations that throw in one behaviour

(***************************************************************************)
(* JavaScript values.  A string is a record tagged k: "txt" is a text that *)
(* is not JSON, "json" is the text JSON.stringify produced for the value   *)
(* v.  Objects carry their fields in the function f.                       *)
(***************************************************************************)
Undefined == [k |-> "undefined"]
Null == [k |-> "null"]
Num == [k |-> "num"]
Txt(s) == [k |-> "txt", s |-> s]
Obj(fields) == [k |-> "obj", f |-> fields]

JSONstringify(v) == [k |-> "json", v |-> v]

\* JSON.parse: the value, or a SyntaxError for a text that is not JSON
SyntaxError == [k |-> "SyntaxError"]
JSONparse(s) ==
    IF s.k = "json" THEN s.v
    ELSE IF s.k \in {"num", "null"} THEN s      \* String(123), String(null) are JSON
    ELSE SyntaxError

\* property access v[name]: a TypeError on null/undefined, undefined when absent
TypeError == [k |-> "TypeError"]
Get(v, name) ==
    IF v.k \in {"null", "undefined"} THEN TypeError
    ELSE IF v.k = "obj" /\ name \in DOMAIN v.f THEN v.f[name]
    ELSE Undefined

IsError(v) == v.k \in {"SyntaxError", "TypeError"}

\* interface TracedMessage { traceId: string; payload: string }
TracedMessage(traceId, payload) == Obj([traceId |-> traceId, payload |-> payload])

IsString(v) == v.k \in {"txt", "json"}

\* a serialized Envelope: JSON text of an object with string traceId and payload
IsEnvelope(s) ==
    /\ s.k = "json"
    /\ s.v.k = "obj"
    /\ DOMAIN s.v.f = {"traceId", "payload"}
    /\ IsString(s.v.f["traceId"])
    /\ IsString(s.v.f["payload"])

uuidv4 == Txt("uuid")

\* traceId || uuidv4(): the empty string and undefined are falsy
OrUuid(traceId) == IF traceId = Undefined \/ traceId = Txt("") THEN uuidv4 ELSE traceId

(***************************************************************************)
(* Inputs.                                                                 *)
(***************************************************************************)
Messages == {Txt("Hello, world!"), Txt("How are you?")}
\* what is sent where only the life cycle of the pool matters: the code of
\* listen never looks into the payload
OneMessage == {Txt("Hello, world!")}
TraceIds == {Txt("test-trace-id")}
\* the traceId? argument in full: left out, the empty string, a trace id
GivenTraceIds == {Undefined, Txt(""), Txt("test-trace-id")}
\* the messages of RPC calls
RpcMessages == {Txt("ping"), Txt("test-message")}
\* payloads on which the decoding of the RPC request throws: a text that is
\* not JSON (SyntaxError) and the text null (TypeError in the destructuring)
MalformedRequests == {Txt("invalid-json"), Null}

\* items a foreign producer may leave on a channel key
ForeignItems == {Txt("invalid-json"), JSONstringify(Num)}

STOP == Txt("STOP")

VARIABLES
    cfg,            \* per pool: the arguments of listen (channelName)
    store,          \* Redis: key -> list of items
    worklimit,      \* per pool: let worklimit
    activeWorkers,  \* per pool: let activeWorkers
    isRunning,      \* per pool: let isRunning
    loops,          \* per pool: bag of processMessage invocations past the admission check
    immediates,     \* per pool: pending setImmediate(processMessage) callbacks
    stopPc,         \* per pool: position of the stop() call
    stopI,          \* per pool: loop variable i of stop()
    appended,       \* number of items appended to channel keys so far
    mayFail,        \* number of store commands that may still fail
    mayThrow,       \* number of handler and errorHandler invocations that may still throw
    handlerCalls,   \* per pool: the handler invocations, in order
    handlerDone,    \* per pool: items whose handler invocation has settled
    errorCalls,     \* per pool: the errorHandler invocations
    rejections,     \* per pool: items whose processMessage promise was rejected
    inHandlerAtStop, \* per pool: items whose handler was executing when stop() was called
    inHandlerAtLower, \* per pool: items whose handler was executing when the limit was last reduced
    given,          \* item n -> the call that appended it, with the arguments it was given
    sendRejected,   \* number of send calls that ended with `Failed to send message to Redis`
    activeAtStop,   \* per pool: activeWorkers when stop() was called
    calls           \* per caller: its sendAndWaitForResponse call

poolVars == <<worklimit, activeWorkers, isRunning, loops, immediates>>
stopVars == <<stopPc, stopI>>
envVars == <<appended, mayFail, mayThrow>>
logVars == <<handlerCalls, handlerDone, errorCalls, rejections>>
histVars == <<inHandlerAtStop, inHandlerAtLower, given, sendRejected, activeAtStop>>
rpcVars == <<calls>>
vars == <<cfg, store, poolVars, stopVars, envVars, logVars, histVars, rpcVars>>

Pools == DOMAIN cfg
Callers == DOMAIN calls

channelName(p) == cfg[p].channelName
\* const shutdownSignal = `${channelName}:trm`
shutdownSignal(p) == cfg[p].channelName \o ":trm"

(***************************************************************************)
(* Items on a key: the string and, for the record, the position at which   *)
(* the message it stems from was appended to its channel (0 for a          *)
(* sentinel).                                                              *)
(***************************************************************************)
Item(val, n) == [val |-> val, n |-> n]
NoItem == Item(Undefined, 0)

\* a processMessage invocation: where it is suspended, and the result of its blpop
Loop(st, key, item) == [st |-> st, key |-> key, item |-> item]
Blocked == Loop("blpop", "", NoItem)

Copies(l, n) == IF n > 0 THEN [x \in {l} |-> n] ELSE EmptyBag
One(l) == Copies(l, 1)

LoopsIn(p, st) == {l \in BagToSet(loops[p]) : l.st = st}

\* items whose handler invocation has not settled yet
InHandler(p) == {l.item.n : l \in LoopsIn(p, "handler")}

\* one invocation moves on / leaves the bag
Replace(p, l, l2) == [loops EXCEPT ![p] = (@ (-) One(l)) (+) One(l2)]
Remove(p, l) == [loops EXCEPT ![p] = @ (-) One(l)]
\* n more invocations are blocked in blpop
Spawn(p, n) == [loops EXCEPT ![p] = @ (+) Copies(Blocked, n)]

(***************************************************************************)
(* The store.                                                              *)
(***************************************************************************)
\* the list at key: a key that does not exist holds the empty list
Lrange(st, key) == IF key \in DOMAIN st THEN st[key] ELSE <<>>
\* LPUSH key value: the item is put at the head
Lpush(st, key, item) ==
    [k \in DOMAIN st \cup {key} |-> IF k = key THEN <<item>> \o Lrange(st, key) ELSE st[k]]

\* RPUSH key value
Rpush(st, key, item) ==
    [k \in DOMAIN st \cup {key} |-> IF k = key THEN Append(Lrange(st, key), item) ELSE st[k]]
\* DEL key
Del(st, key) == [k \in DOMAIN st \ {key} |-> st[k]]
\* a pop that returns the head and leaves it on the list
Lkeep(st, key) == st

\* LPOP key: a list that becomes empty is removed
Lpop(st, key) == IF Len(st[key]) = 1 THEN Del(st, key) ELSE [st EXCEPT ![key] = Tail(@)]

\* BLPOP k1 k2: the first key in the order given that holds an item, "" if none
FirstReady(k1, k2) ==
    IF k1 \in DOMAIN store THEN k1 ELSE IF k2 \in DOMAIN store THEN k2 ELSE ""

\* redisClient.blpop(channelName, shutdownSignal, 0)
BlpopKey(p) == FirstReady(channelName(p), shutdownSignal(p))

\* a blocked pop-loop that the store can serve
Servable(p) == Blocked \in BagToSet(loops[p]) /\ BlpopKey(p) # ""

\* a response key that leaves out the rpcId
responseChannelShared(rpcId) == "rpc:"

\* const responseChannel = `rpc:${rpcId}`
responseChannel(rpcId) == "rpc:" \o rpcId

\* a caller blocked in blpop(responseChannel, 30) that the store can serve
ServableCall(c) ==
    calls[c].pc = "blpop" /\ responseChannel(ToString(calls[c].n)) \in DOMAIN store

\* no blocked client is waiting on a key that holds an item
Settled == (\A p \in Pools : ~Servable(p)) /\ (\A c \in Callers : ~ServableCall(c))

\* the store serves a blocked BLPOP of pool p: the reply [key, value] is on its way
StoreServe(p) ==
    /\ Servable(p)
    /\ store' = Lpop(store, BlpopKey(p))
    /\ loops' = Replace(p, Blocked, Loop("reply", BlpopKey(p), Head(store[BlpopKey(p)])))
    /\ UNCHANGED <<cfg, worklimit, activeWorkers, isRunning, immediates>>
    /\ UNCHANGED <<stopVars, envVars, logVars, histVars, rpcVars>>

(***************************************************************************)
(* processMessage, index.ts 38-82.                                         *)
(***************************************************************************)
\* the guard of processMessage without its test of isRunning
AdmittedStopped(run, aw, wl) == ~(aw >= wl /\ wl # 0)

\* the guard of processMessage without its test of the limit
AdmittedAnyway(run, aw, wl) == run

\* the limit test written with > instead of >=
AdmittedOffByOne(run, aw, wl) == ~(~run \/ (aw > wl /\ wl # 0))

\* if (!isRunning || (activeWorkers >= worklimit && worklimit !== 0)) return;
Admitted(run, aw, wl) == ~(~run \/ (aw >= wl /\ wl # 0))

\* the synchronous part of one processMessage() call: activeWorkers afterwards
processMessage(run, aw, wl) == IF Admitted(run, aw, wl) THEN aw + 1 ELSE aw

\* start() spawning a single pop-loop whatever the limit
StartLoopOnce(i, aw, wl) ==
    IF i < wl THEN processMessage(TRUE, aw, wl) ELSE aw

\* for (let i = 0; i < worklimit; i++) processMessage();
RECURSIVE StartLoop(_, _, _)
StartLoop(i, aw, wl) ==
    IF i < wl THEN StartLoop(i + 1, processMessage(TRUE, aw, wl), wl) ELSE aw

\* setWorklimit written with `if` instead of `while`: one spawn at most
SpawnOnce(run, aw, wl) ==
    IF aw < wl /\ run THEN processMessage(run, aw, wl) ELSE aw

\* while (activeWorkers < worklimit && isRunning) processMessage();
RECURSIVE SpawnWhile(_, _, _)
SpawnWhile(run, aw, wl) ==
    IF aw < wl /\ run THEN SpawnWhile(run, processMessage(run, aw, wl), wl) ELSE aw

\* a finally block that does not schedule the successor of the pop-loop
FinallyNoRespawn(p, l) ==
    /\ isRunning[p] => immediates[p] < MaxImmediates
    /\ activeWorkers' = [activeWorkers EXCEPT ![p] = @ - 1]
    /\ immediates' = immediates
    /\ loops' = Remove(p, l)
    /\ UNCHANGED <<cfg, store, worklimit, isRunning, stopVars, histVars, rpcVars>>

\* the decrement placed after the try statement instead of in finally: the
\* `return` on a sentinel leaves without it
FinallyAfterTry(p, l) ==
    /\ isRunning[p] => immediates[p] < MaxImmediates
    /\ activeWorkers' = [activeWorkers EXCEPT ![p] = IF l.key = shutdownSignal(p) THEN @ ELSE @ - 1]
    /\ immediates' = [immediates EXCEPT ![p] = IF isRunning[p] THEN @ + 1 ELSE @]
    /\ loops' = Remove(p, l)
    /\ UNCHANGED <<cfg, store, worklimit, isRunning, stopVars, histVars, rpcVars>>

\* finally { activeWorkers--; if (isRunning) setImmediate(processMessage); }
Finally(p, l) ==
    /\ isRunning[p] => immediates[p] < MaxImmediates
    /\ activeWorkers' = [activeWorkers EXCEPT ![p] = @ - 1]
    /\ immediates' = [immediates EXCEPT ![p] = IF isRunning[p] THEN @ + 1 ELSE @]
    /\ loops' = Remove(p, l)
    /\ UNCHANGED <<cfg, store, worklimit, isRunning, stopVars, histVars, rpcVars>>

\* a pop-loop that issues its next blocking pop when it hands a message to the
\* handler, instead of after the handler has returned
SuspendPrefetch(p, l, st) ==
    /\ loops' = [loops EXCEPT ![p] =
           ((@ (-) One(l)) (+) One(Loop(st, l.key, l.item)))
               (+) Copies(Blocked, IF st = "handler" THEN 1 ELSE 0)]
    /\ UNCHANGED <<cfg, store, worklimit, activeWorkers, isRunning, immediates>>
    /\ UNCHANGED <<stopVars, histVars, rpcVars>>

\* the invocation stays in its try block, suspended at the next await
Suspend(p, l, st) ==
    /\ loops' = Replace(p, l, Loop(st, l.key, l.item))
    /\ UNCHANGED <<cfg, store, worklimit, activeWorkers, isRunning, immediates>>
    /\ UNCHANGED <<stopVars, histVars, rpcVars>>

\* the callback scheduled by setImmediate(processMessage) runs
Immediate(p) ==
    /\ Settled
    /\ immediates[p] > 0
    /\ immediates' = [immediates EXCEPT ![p] = @ - 1]
    /\ LET aw == processMessage(isRunning[p], activeWorkers[p], worklimit[p])
       IN /\ activeWorkers' = [activeWorkers EXCEPT ![p] = aw]
          /\ loops' = Spawn(p, aw - activeWorkers[p])
    /\ UNCHANGED <<cfg, store, worklimit, isRunning>>
    /\ UNCHANGED <<stopVars, envVars, logVars, histVars, rpcVars>>

\* the else branch of the outer catch, taken for a thrown value that is not an Error
RedisFailureUnknown(item) ==
    [n |-> item.n, error |-> "Unknown Redis error occurred",
     message |-> Txt("Error processing message"), traceId |-> uuidv4]

\* the errorHandler invocations of the source, as (error, message) pairs
ParseFailure(item) ==
    [n |-> item.n, error |-> "Failed to parse message", message |-> item.val,
     traceId |-> uuidv4]
RedisFailure(item) ==
    [n |-> item.n, error |-> "Redis operation failed", message |-> Txt("Error processing message"),
     traceId |-> uuidv4]

\* a wrapper that hands the error handler the whole item instead of its payload
RpcFailureRaw(item, error) ==
    [n |-> item.n, error |-> error, message |-> item.val,
     traceId |-> Get(JSONparse(item.val), "traceId")]

\* errorHandler(error, messageStr, traceId) of the listenAndRespond wrapper, 171-176
RpcFailure(item, error) ==
    [n |-> item.n, error |-> error, message |-> Get(JSONparse(item.val), "payload"),
     traceId |-> Get(JSONparse(item.val), "traceId")]

\* handler(tracedMessage.payload, tracedMessage.traceId)
HandlerCall(item, tm) ==
    [n |-> item.n, raw |-> item.val, payload |-> Get(tm, "payload"), traceId |-> Get(tm, "traceId")]

\* const { rpcId, message, responseChannel } = JSON.parse(messageStr), index.ts 163
Request(item) == JSONparse(Get(JSONparse(item.val), "payload"))
Destructures(req) == ~IsError(req) /\ ~IsError(Get(req, "rpcId"))
\* the error thrown when it does not go through
DecodeError(req) == IF IsError(req) THEN req.k ELSE Get(req, "rpcId").k

\* handler(message, traceId) of listenAndRespond, index.ts 164
RpcHandlerCall(item, tm) ==
    [n |-> item.n, raw |-> item.val, payload |-> Get(Request(item), "message"),
     traceId |-> Get(tm, "traceId")]

\* a processMessage without the inner try: every item goes to the handler
ParsesAnything(val) == TRUE

\* const tracedMessage: TracedMessage = JSON.parse(message) and the two property
\* reads of line 53 go through without throwing
Parses(val) == ~IsError(JSONparse(val)) /\ ~IsError(Get(JSONparse(val), "payload"))

\* a processMessage without the test of the key that answered
IsSentinelNever(p, resultChannel) == FALSE

\* if (resultChannel === shutdownSignal) return;
IsSentinel(p, resultChannel) == resultChannel = shutdownSignal(p)

\* the continuation after `await redisClient.blpop(...)`, index.ts 46-60
BlpopReply(p) ==
    /\ Settled
    /\ \E l \in LoopsIn(p, "reply") :
        IF IsSentinel(p, l.key)
        THEN /\ Finally(p, l)
             /\ UNCHANGED <<envVars, logVars>>
        ELSE IF Parses(l.item.val) /\ ~cfg[p].respond
        THEN /\ Suspend(p, l, "handler")
             /\ handlerCalls' = [handlerCalls EXCEPT ![p] =
                    Append(@, HandlerCall(l.item, JSONparse(l.item.val)))]
             /\ UNCHANGED <<envVars, handlerDone, errorCalls, rejections>>
        ELSE IF Parses(l.item.val) /\ Destructures(Request(l.item))
        THEN /\ Suspend(p, l, "handler")
             /\ handlerCalls' = [handlerCalls EXCEPT ![p] =
                    Append(@, RpcHandlerCall(l.item, JSONparse(l.item.val)))]
             /\ UNCHANGED <<envVars, handlerDone, errorCalls, rejections>>
        ELSE IF Parses(l.item.val)
        THEN /\ Suspend(p, l, "errRpc")
             /\ errorCalls' = [errorCalls EXCEPT ![p] =
                    @ \cup {RpcFailure(l.item, DecodeError(Request(l.item)))}]
             /\ UNCHANGED <<envVars, handlerCalls, handlerDone, rejections>>
        ELSE /\ Suspend(p, l, "errInner")
             /\ errorCalls' = [errorCalls EXCEPT ![p] = @ \cup {ParseFailure(l.item)}]
             /\ UNCHANGED <<envVars, handlerCalls, handlerDone, rejections>>

\* `await redisClient.blpop(...)` throws: the outer catch, index.ts 62-75
BlpopError(p) ==
    /\ Settled
    /\ Blocked \in BagToSet(loops[p])
    /\ mayFail > 0
    /\ mayFail' = mayFail - 1
    /\ Suspend(p, Blocked, "errOuter")
    /\ errorCalls' = [errorCalls EXCEPT ![p] = @ \cup {RedisFailure(NoItem)}]
    /\ UNCHANGED <<appended, mayThrow, handlerCalls, handlerDone, rejections>>

\* the string the RPC handler returns for a request
Pong == Txt("pong")

\* the RPC handler of the tests: "pong" for "ping", 'response' otherwise
RpcResult(message) == IF message = Txt("ping") THEN Pong ELSE Txt("response")

\* await redisClient.rpush(responseChannel, result): the result as it is
Response(request, result) == result

\* `await handler(...)` resolves: the try block is left, then finally; under
\* listenAndRespond the wrapper goes on to rpush(responseChannel, result), 164-169
HandlerResolve(p) ==
    /\ Settled
    /\ \E l \in LoopsIn(p, "handler") :
        /\ handlerDone' = [handlerDone EXCEPT ![p] = @ \cup {l.item.n}]
        /\ IF ~cfg[p].respond
           THEN /\ Finally(p, l)
                /\ UNCHANGED <<envVars, handlerCalls, errorCalls, rejections>>
           ELSE \/ /\ store' = Rpush(store, Get(Request(l.item), "responseChannel").s,
                                      Item(Response(Request(l.item),
                                                    RpcResult(Get(Request(l.item), "message"))),
                                           l.item.n))
                   /\ loops' = Replace(p, l, Loop("respond", l.key, l.item))
                   /\ UNCHANGED <<envVars, errorCalls>>
                   /\ UNCHANGED <<cfg, worklimit, activeWorkers, isRunning, immediates>>
                   /\ UNCHANGED <<stopVars, handlerCalls, rejections, histVars, rpcVars>>
                \/ /\ mayFail > 0
                   /\ mayFail' = mayFail - 1
                   /\ Suspend(p, l, "errRpc")
                   /\ errorCalls' = [errorCalls EXCEPT ![p] =
                          @ \cup {RpcFailure(l.item, "Failed to send RPC response")}]
                   /\ UNCHANGED <<appended, mayThrow, handlerCalls, rejections>>

\* the reply to rpush(responseChannel, result) arrives: the wrapper returns
RespondReply(p) ==
    /\ Settled
    /\ \E l \in LoopsIn(p, "respond") :
        /\ Finally(p, l)
        /\ UNCHANGED <<envVars, logVars>>

\* `await handler(...)` throws: catch (parseError), index.ts 54-60
HandlerReject(p) ==
    /\ Settled
    /\ mayThrow > 0
    /\ mayThrow' = mayThrow - 1
    /\ \E l \in LoopsIn(p, "handler") :
        /\ Suspend(p, l, IF cfg[p].respond THEN "errRpc" ELSE "errInner")
        /\ handlerDone' = [handlerDone EXCEPT ![p] = @ \cup {l.item.n}]
        /\ errorCalls' = [errorCalls EXCEPT ![p] = @ \cup
               {IF cfg[p].respond THEN RpcFailure(l.item, "handler") ELSE ParseFailure(l.item)}]
        /\ UNCHANGED <<appended, mayFail, handlerCalls, rejections>>

\* `await errorHandler(...)` resolves, in either catch block or in the wrapper
ErrorHandlerResolve(p) ==
    /\ Settled
    /\ \E l \in LoopsIn(p, "errInner") \cup LoopsIn(p, "errOuter") \cup LoopsIn(p, "errRpc") :
        /\ Finally(p, l)
        /\ UNCHANGED <<envVars, logVars>>

\* `await errorHandler(...)` throws inside the wrapper of listenAndRespond: the
\* wrapper rejects and catch (parseError) runs
ErrorHandlerRejectRpc(p) ==
    /\ Settled
    /\ mayThrow > 0
    /\ mayThrow' = mayThrow - 1
    /\ \E l \in LoopsIn(p, "errRpc") :
        /\ Suspend(p, l, "errInner")
        /\ errorCalls' = [errorCalls EXCEPT ![p] = @ \cup {ParseFailure(l.item)}]
        /\ UNCHANGED <<appended, mayFail, handlerCalls, handlerDone, rejections>>

\* `await errorHandler(...)` throws inside catch (parseError): the outer catch runs
ErrorHandlerRejectInner(p) ==
    /\ Settled
    /\ mayThrow > 0
    /\ mayThrow' = mayThrow - 1
    /\ \E l \in LoopsIn(p, "errInner") :
        /\ Suspend(p, l, "errOuter")
        /\ errorCalls' = [errorCalls EXCEPT ![p] = @ \cup {RedisFailure(l.item)}]
        /\ UNCHANGED <<appended, mayFail, handlerCalls, handlerDone, rejections>>

\* `await errorHandler(...)` throws inside the outer catch: finally runs and the
\* promise of processMessage is rejected
ErrorHandlerRejectOuter(p) ==
    /\ Settled
    /\ mayThrow > 0
    /\ mayThrow' = mayThrow - 1
    /\ \E l \in LoopsIn(p, "errOuter") :
        /\ Finally(p, l)
        /\ rejections' = [rejections EXCEPT ![p] = @ \cup {l.item.n}]
        /\ UNCHANGED <<appended, mayFail, handlerCalls, handlerDone, errorCalls>>

(***************************************************************************)
(* start, stop, setWorklimit, getStats: index.ts 84-115.                   *)
(***************************************************************************)
\* start() without its test of isRunning
startAgain(p) ==
    /\ Settled
    /\ LET aw == StartLoop(0, activeWorkers[p], worklimit[p])
       IN /\ isRunning' = [isRunning EXCEPT ![p] = TRUE]
          /\ activeWorkers' = [activeWorkers EXCEPT ![p] = aw]
          /\ loops' = Spawn(p, aw - activeWorkers[p])
    /\ UNCHANGED <<cfg, store, worklimit, immediates, stopVars, envVars, logVars, histVars, rpcVars>>

start(p) ==
    /\ Settled
    /\ IF ~isRunning[p]
       THEN LET aw == StartLoop(0, activeWorkers[p], worklimit[p])
            IN /\ isRunning' = [isRunning EXCEPT ![p] = TRUE]
               /\ activeWorkers' = [activeWorkers EXCEPT ![p] = aw]
               /\ loops' = Spawn(p, aw - activeWorkers[p])
       ELSE UNCHANGED <<isRunning, activeWorkers, loops>>
    /\ UNCHANGED <<cfg, store, worklimit, immediates, stopVars, envVars, logVars, histVars, rpcVars>>

\* the wait of stop() written with > 1 instead of > 0
StopWaitsOffByOne(aw) == aw > 1

\* while (activeWorkers > 0) await new Promise(resolve => setTimeout(resolve, 100));
StopWaits(aw) == aw > 0

\* a stop() that leaves the sentinel key as it is
StopDelSkipped(st, key) == st

\* await redisClient.del(shutdownSignal)
StopDel(st, key) == Del(st, key)

\* stop() from the loop test `i < activeWorkers` on, up to its next await
StopContinue(p, i) ==
    IF i < activeWorkers[p]
    THEN \* await redisClient.rpush(shutdownSignal, 'STOP')
         \/ /\ store' = Rpush(store, shutdownSignal(p), Item(STOP, 0))
            /\ stopPc' = [stopPc EXCEPT ![p] = "rpush"]
            /\ stopI' = [stopI EXCEPT ![p] = i]
            /\ UNCHANGED mayFail
         \/ /\ mayFail > 0
            /\ mayFail' = mayFail - 1
            /\ stopPc' = [stopPc EXCEPT ![p] = "rpushErr"]
            /\ stopI' = [stopI EXCEPT ![p] = i]
            /\ UNCHANGED store
    ELSE IF StopWaits(activeWorkers[p])
    THEN /\ stopPc' = [stopPc EXCEPT ![p] = "poll"]
         /\ stopI' = [stopI EXCEPT ![p] = 0]
         /\ UNCHANGED <<store, mayFail>>
    ELSE \* await redisClient.del(shutdownSignal)
         \/ /\ store' = StopDel(store, shutdownSignal(p))
            /\ stopPc' = [stopPc EXCEPT ![p] = "del"]
            /\ stopI' = [stopI EXCEPT ![p] = 0]
            /\ UNCHANGED mayFail
         \/ /\ mayFail > 0
            /\ mayFail' = mayFail - 1
            /\ stopPc' = [stopPc EXCEPT ![p] = "delErr"]
            /\ stopI' = [stopI EXCEPT ![p] = 0]
            /\ UNCHANGED store

StopPending(p) == stopPc[p] \in {"rpush", "rpushErr", "poll", "del", "delErr"}

\* a stop() that cancels the invocations in flight instead of waiting for them
stopAbort(p) ==
    /\ Settled
    /\ ~StopPending(p)
    /\ isRunning' = [isRunning EXCEPT ![p] = FALSE]
    /\ loops' = [loops EXCEPT ![p] = EmptyBag]
    /\ activeWorkers' = [activeWorkers EXCEPT ![p] = 0]
    /\ stopPc' = [stopPc EXCEPT ![p] = "done"]
    /\ inHandlerAtStop' = [inHandlerAtStop EXCEPT ![p] = InHandler(p)]
    /\ activeAtStop' = [activeAtStop EXCEPT ![p] = activeWorkers[p]]
    /\ UNCHANGED <<cfg, store, worklimit, immediates, stopI, envVars, logVars, rpcVars>>
    /\ UNCHANGED <<inHandlerAtLower, given, sendRejected>>

\* the call of stop(): isRunning = false, then the first loop test
stop(p) ==
    /\ Settled
    /\ ~StopPending(p)
    /\ isRunning' = [isRunning EXCEPT ![p] = FALSE]
    /\ StopContinue(p, 0)
    /\ inHandlerAtStop' = [inHandlerAtStop EXCEPT ![p] = InHandler(p)]
    /\ activeAtStop' = [activeAtStop EXCEPT ![p] = activeWorkers[p]]
    /\ UNCHANGED <<cfg, worklimit, activeWorkers, loops, immediates>>
    /\ UNCHANGED <<appended, mayThrow, logVars, inHandlerAtLower, given, sendRejected, rpcVars>>

\* the reply to rpush arrives: i++ and the loop test again
StopRpushReply(p) ==
    /\ Settled
    /\ stopPc[p] = "rpush"
    /\ StopContinue(p, stopI[p] + 1)
    /\ UNCHANGED <<cfg, poolVars, appended, mayThrow, logVars, histVars, rpcVars>>

\* the 100 ms timer fires and the while test fails: the loop is left
StopPoll(p) ==
    /\ Settled
    /\ stopPc[p] = "poll"
    /\ ~StopWaits(activeWorkers[p])
    /\ StopContinue(p, activeWorkers[p])
    /\ UNCHANGED <<cfg, poolVars, appended, mayThrow, logVars, histVars, rpcVars>>

\* the reply to del arrives: stop() returns
StopReturn(p) ==
    /\ Settled
    /\ stopPc[p] = "del"
    /\ stopPc' = [stopPc EXCEPT ![p] = "done"]
    /\ UNCHANGED <<cfg, store, poolVars, stopI, envVars, logVars, histVars, rpcVars>>

\* a catch of stop() that swallows the error: stop() returns
StopThrowSwallowed(p) ==
    /\ Settled
    /\ stopPc[p] \in {"rpushErr", "delErr"}
    /\ stopPc' = [stopPc EXCEPT ![p] = "done"]
    /\ UNCHANGED <<cfg, store, poolVars, stopI, envVars, logVars, histVars, rpcVars>>

\* rpush or del failed: throw new Error(`Failed to stop worker: ...`)
StopThrow(p) ==
    /\ Settled
    /\ stopPc[p] \in {"rpushErr", "delErr"}
    /\ stopPc' = [stopPc EXCEPT ![p] = "failed"]
    /\ UNCHANGED <<cfg, store, poolVars, stopI, envVars, logVars, histVars, rpcVars>>

setWorklimit(p, newLimit) ==
    LET aw == SpawnWhile(isRunning[p], activeWorkers[p], newLimit)
    IN /\ Settled
       /\ worklimit' = [worklimit EXCEPT ![p] = newLimit]
       /\ activeWorkers' = [activeWorkers EXCEPT ![p] = aw]
       /\ loops' = Spawn(p, aw - activeWorkers[p])
       /\ inHandlerAtLower' = IF newLimit < worklimit[p]
                              THEN [inHandlerAtLower EXCEPT ![p] = InHandler(p)]
                              ELSE inHandlerAtLower
       /\ UNCHANGED <<cfg, store, isRunning, immediates, stopVars, envVars, logVars, rpcVars>>
       /\ UNCHANGED <<inHandlerAtStop, given, sendRejected, activeAtStop>>

\* const getStats = (): WorkerStats => ({ activeWorkers, worklimit })
getStats(p) == [activeWorkers |-> activeWorkers[p], worklimit |-> worklimit[p]]

(***************************************************************************)
(* send, index.ts 15-25, and producers that do not use send.               *)
(***************************************************************************)
\* the call that appended an item: its name and its arguments
Given(by, channel, message, traceId) ==
    [by |-> by, channel |-> channel, message |-> message, traceId |-> traceId]

\* a send that swallows the error of rpush
SendCatchSwallows(rejected) == rejected

\* catch (error) { throw new Error(`Failed to send message to Redis: ...`) }
SendCatch(rejected) == rejected + 1

send(channel, message, traceId) ==
    /\ Settled
    /\ appended < MaxSends
    /\ \/ /\ store' = Rpush(store, channel,
                   Item(JSONstringify(TracedMessage(OrUuid(traceId), message)), appended + 1))
          /\ appended' = appended + 1
          /\ given' = Append(given, Given("send", channel, message, traceId))
          /\ UNCHANGED <<mayFail, sendRejected>>
       \/ /\ mayFail > 0
          /\ mayFail' = mayFail - 1
          /\ sendRejected' = SendCatch(sendRejected)
          /\ UNCHANGED <<store, appended, given>>
    /\ UNCHANGED <<cfg, poolVars, stopVars, mayThrow, logVars, rpcVars>>
    /\ UNCHANGED <<inHandlerAtStop, inHandlerAtLower, activeAtStop>>

\* a producer that does not use send appends val to the channel key
ForeignPush(channel, val) ==
    /\ Settled
    /\ appended < MaxSends
    /\ store' = Rpush(store, channel, Item(val, appended + 1))
    /\ appended' = appended + 1
    /\ given' = Append(given, Given("foreign", channel, val, Undefined))
    /\ UNCHANGED <<cfg, poolVars, stopVars, mayFail, mayThrow, logVars, rpcVars>>
    /\ UNCHANGED <<inHandlerAtStop, inHandlerAtLower, sendRejected, activeAtStop>>

(***************************************************************************)
(* sendAndWaitForResponse, index.ts 121-151.  A call is at "rpush",        *)
(* "blpop" (blocked), "reply", "del", or has ended: "returned" with the    *)
(* response got, "timeout" with the Timeout error, "failed" with `RPC      *)
(* operation failed`.  uuidv4() gives every call an rpcId of its own: the  *)
(* number of its request.                                                  *)
(***************************************************************************)
Call(pc, n, got) == [pc |-> pc, n |-> n, got |-> got]

RpcPayload(rpcId, message) ==
    JSONstringify(Obj([rpcId |-> Txt(rpcId), message |-> message,
                       responseChannel |-> Txt(responseChannel(rpcId))]))

sendAndWaitForResponse(c, channel, message, traceId) ==
    /\ Settled
    /\ calls[c].pc = "idle"
    /\ appended < MaxSends
    /\ LET n == appended + 1
           tracedMessage == TracedMessage(OrUuid(traceId), RpcPayload(ToString(n), message))
       IN \/ /\ store' = Rpush(store, channel, Item(JSONstringify(tracedMessage), n))
             /\ appended' = n
             /\ given' = Append(given, Given("sendAndWaitForResponse", channel, message, traceId))
             /\ calls' = [calls EXCEPT ![c] = Call("rpush", n, NoItem)]
             /\ UNCHANGED mayFail
          \/ /\ mayFail > 0
             /\ mayFail' = mayFail - 1
             /\ calls' = [calls EXCEPT ![c] = Call("failing", 0, NoItem)]
             /\ UNCHANGED <<store, appended, given>>
    /\ UNCHANGED <<cfg, poolVars, stopVars, mayThrow, logVars>>
    /\ UNCHANGED <<inHandlerAtStop, inHandlerAtLower, sendRejected, activeAtStop>>

\* the reply to rpush arrives: blpop(responseChannel, 30) is issued
RpcRpushReply(c) ==
    /\ Settled
    /\ calls[c].pc = "rpush"
    /\ calls' = [calls EXCEPT ![c].pc = "blpop"]
    /\ UNCHANGED <<cfg, store, poolVars, stopVars, envVars, logVars, histVars>>

\* the store serves the blocked BLPOP of a caller
StoreServeCall(c) ==
    /\ ServableCall(c)
    /\ LET key == responseChannel(ToString(calls[c].n))
       IN /\ store' = Lpop(store, key)
          /\ calls' = [calls EXCEPT ![c] = Call("reply", @.n, Head(store[key]))]
    /\ UNCHANGED <<cfg, poolVars, stopVars, envVars, logVars, histVars>>

\* the timeout argument of redisClient.blpop(responseChannel, 30), in seconds
BlpopTimeout == 30

\* a blocking pop that never gives up
ExpiresNever(timeout) == FALSE

\* BLPOP key timeout: a timeout of 0 blocks for ever, any other one expires
Expires(timeout) == timeout # 0

\* the timeout of the blocked pop passes with the key empty: the store answers null
RpcTimeout(c) ==
    /\ Settled
    /\ calls[c].pc = "blpop"
    /\ Expires(BlpopTimeout)
    /\ calls' = [calls EXCEPT ![c].pc = "reply"]
    /\ UNCHANGED <<cfg, store, poolVars, stopVars, envVars, logVars, histVars>>

\* a call that does not test the result of blpop
TimedOutUntested(result) == FALSE

\* if (result === null) throw new Error('RPC timeout: ...')
TimedOut(result) == result = NoItem

\* the errors thrown inside the try block of sendAndWaitForResponse
RpcTimeoutError == "RPC timeout: No response received within 30 seconds"
StoreError == "Redis connection lost"

\* a catch block that wraps every error
CaughtWrapped(error) == "failed"

\* catch (error): an error whose message includes 'RPC timeout' is re-thrown as
\* it is ("timeout"), any other is wrapped in `RPC operation failed` ("failed")
Caught(error) == IF error = RpcTimeoutError THEN "timeout" ELSE "failed"

\* a cleanup whose failure is thrown on
CleanupAborts == "failing"

\* catch (cleanupError) { console.warn(...) }: the call goes on to `return response`
CleanupWarns == "del"

\* the continuation after `await redisClient.blpop(responseChannel, 30)`, 132-142
RpcBlpopReply(c) ==
    /\ Settled
    /\ calls[c].pc = "reply"
    /\ IF TimedOut(calls[c].got)
       THEN /\ calls' = [calls EXCEPT ![c].pc = Caught(RpcTimeoutError)]
            /\ UNCHANGED <<store, mayFail>>
       ELSE \/ /\ store' = Del(store, responseChannel(ToString(calls[c].n)))
               /\ calls' = [calls EXCEPT ![c].pc = "del"]
               /\ UNCHANGED mayFail
            \/ /\ mayFail > 0
               /\ mayFail' = mayFail - 1
               /\ calls' = [calls EXCEPT ![c].pc = CleanupWarns]
               /\ UNCHANGED store
    /\ UNCHANGED <<cfg, poolVars, stopVars, appended, mayThrow, logVars, histVars>>

\* del is answered, or fails and is only warned about: return response
RpcDelReply(c) ==
    /\ Settled
    /\ calls[c].pc = "del"
    /\ calls' = [calls EXCEPT ![c].pc = "returned"]
    /\ UNCHANGED <<cfg, store, poolVars, stopVars, envVars, logVars, histVars>>

\* rpush or blpop failed: throw new Error(`RPC operation failed: ...`)
RpcBlpopError(c) ==
    /\ Settled
    /\ calls[c].pc = "blpop"
    /\ mayFail > 0
    /\ mayFail' = mayFail - 1
    /\ calls' = [calls EXCEPT ![c].pc = "failing"]
    /\ UNCHANGED <<cfg, store, poolVars, stopVars, appended, mayThrow, logVars, histVars>>

RpcThrow(c) ==
    /\ Settled
    /\ calls[c].pc = "failing"
    /\ calls' = [calls EXCEPT ![c].pc = Caught(StoreError)]
    /\ UNCHANGED <<cfg, store, poolVars, stopVars, envVars, logVars, histVars>>

(***************************************************************************)
(* listen, index.ts 27-119: the closure state, then start().               *)
(***************************************************************************)
listen(ps, limits) ==
    /\ worklimit = limits
    /\ isRunning = [p \in ps |-> TRUE]
    /\ activeWorkers = [p \in ps |-> StartLoop(0, 0, limits[p])]
    /\ loops = [p \in ps |-> Copies(Blocked, StartLoop(0, 0, limits[p]))]
    /\ immediates = [p \in ps |-> 0]
    /\ stopPc = [p \in ps |-> "idle"]
    /\ stopI = [p \in ps |-> 0]
    /\ handlerCalls = [p \in ps |-> <<>>]
    /\ handlerDone = [p \in ps |-> {}]
    /\ errorCalls = [p \in ps |-> {}]
    /\ rejections = [p \in ps |-> {}]
    /\ inHandlerAtStop = [p \in ps |-> {}]
    /\ activeAtStop = [p \in ps |-> 0]
    /\ inHandlerAtLower = [p \in ps |-> {}]

\* one broker, one pool listening on the channel "test", no RPC caller
OnePool(limits, fail, throw) ==
    /\ cfg = [p \in {"A"} |-> [channelName |-> "test", respond |-> FALSE]]
    /\ store = [key \in {} |-> <<>>]
    /\ appended = 0
    /\ given = <<>>
    /\ sendRejected = 0
    /\ mayFail = fail
    /\ mayThrow = throw
    /\ calls = [c \in {} |-> Call("idle", 0, NoItem)]
    /\ \E w \in limits : listen({"A"}, [p \in {"A"} |-> w])

(***************************************************************************)
(* Spec: a pool in normal operation.  The application calls start, stop    *)
(* (one call at a time) and setWorklimit at any moment, producers send     *)
(* messages, a handler may throw; the store does not fail.                 *)
(***************************************************************************)
Init == OnePool(0..MaxLimit, 0, MaxThrows)

Next ==
    \/ \E p \in Pools : StoreServe(p)
    \/ \E p \in Pools : Immediate(p)
    \/ \E p \in Pools : BlpopReply(p)
    \/ \E p \in Pools : HandlerResolve(p)
    \/ \E p \in Pools : HandlerReject(p)
    \/ \E p \in Pools : ErrorHandlerResolve(p)
    \/ \E p \in Pools : StopRpushReply(p)
    \/ \E p \in Pools : StopPoll(p)
    \/ \E p \in Pools : StopReturn(p)
    \/ \E p \in Pools : start(p)
    \/ \E p \in Pools : stop(p)
    \/ \E p \in Pools, newLimit \in 0..MaxLimit : setWorklimit(p, newLimit)
    \/ \E p \in Pools, message \in OneMessage, traceId \in TraceIds :
           send(channelName(p), message, traceId)

Spec == Init /\ [][Next]_vars

(***************************************************************************)
(* SpecRaise: as Spec, for a pool whose limit starts above 0 and is never  *)
(* lowered.                                                                *)
(***************************************************************************)
InitRaise == OnePool(1..MaxLimit, 0, MaxThrows)

NextRaise ==
    \/ \E p \in Pools : StoreServe(p)
    \/ \E p \in Pools : Immediate(p)
    \/ \E p \in Pools : BlpopReply(p)
    \/ \E p \in Pools : HandlerResolve(p)
    \/ \E p \in Pools : HandlerReject(p)
    \/ \E p \in Pools : ErrorHandlerResolve(p)
    \/ \E p \in Pools : StopRpushReply(p)
    \/ \E p \in Pools : StopPoll(p)
    \/ \E p \in Pools : StopReturn(p)
    \/ \E p \in Pools : start(p)
    \/ \E p \in Pools : stop(p)
    \/ \E p \in Pools, newLimit \in 1..MaxLimit :
           newLimit >= worklimit[p] /\ setWorklimit(p, newLimit)
    \/ \E p \in Pools, message \in OneMessage, traceId \in TraceIds :
           send(channelName(p), message, traceId)

SpecRaise == InitRaise /\ [][NextRaise]_vars

(***************************************************************************)
(* SpecFifo: a single listener of worklimit 1 whose limit is not changed.  *)
(***************************************************************************)
InitFifo == OnePool({1}, 0, MaxThrows)

NextFifo ==
    \/ \E p \in Pools : StoreServe(p)
    \/ \E p \in Pools : Immediate(p)
    \/ \E p \in Pools : BlpopReply(p)
    \/ \E p \in Pools : HandlerResolve(p)
    \/ \E p \in Pools : HandlerReject(p)
    \/ \E p \in Pools : ErrorHandlerResolve(p)
    \/ \E p \in Pools : StopRpushReply(p)
    \/ \E p \in Pools : StopPoll(p)
    \/ \E p \in Pools : StopReturn(p)
    \/ \E p \in Pools : start(p)
    \/ \E p \in Pools : stop(p)
    \/ \E p \in Pools, message \in Messages, traceId \in TraceIds :
           send(channelName(p), message, traceId)

SpecFifo == InitFifo /\ [][NextFifo]_vars

(***************************************************************************)
(* SpecItems: a running pool that is left alone, on a channel to which     *)
(* send and foreign producers append.  Handlers and error handlers may     *)
(* throw.  Every continuation of the event loop eventually runs, and a     *)
(* handler or error handler eventually settles.                            *)
(***************************************************************************)
InitItems == OnePool(1..MaxLimit, 0, MaxThrows)

NextItems ==
    \/ \E p \in Pools : StoreServe(p)
    \/ \E p \in Pools : Immediate(p)
    \/ \E p \in Pools : BlpopReply(p)
    \/ \E p \in Pools : HandlerResolve(p)
    \/ \E p \in Pools : HandlerReject(p)
    \/ \E p \in Pools : ErrorHandlerResolve(p)
    \/ \E p \in Pools : ErrorHandlerRejectInner(p)
    \/ \E p \in Pools, message \in Messages, traceId \in TraceIds :
           send(channelName(p), message, traceId)
    \/ \E p \in Pools, val \in ForeignItems : ForeignPush(channelName(p), val)

FairItems ==
    \A p \in {"A"} :
        /\ WF_vars(StoreServe(p))
        /\ WF_vars(Immediate(p))
        /\ WF_vars(BlpopReply(p))
        /\ WF_vars(HandlerResolve(p))
        /\ WF_vars(ErrorHandlerResolve(p))

SpecItems == InitItems /\ [][NextItems]_vars /\ FairItems

(***************************************************************************)
(* SpecFaults: a pool whose store commands may fail and whose error        *)
(* handler may throw; the application calls start and stop.                *)
(***************************************************************************)
InitFaults == OnePool(1..MaxLimit, MaxStoreErrors, MaxThrows)

NextFaults ==
    \/ \E p \in Pools : StoreServe(p)
    \/ \E p \in Pools : Immediate(p)
    \/ \E p \in Pools : BlpopReply(p)
    \/ \E p \in Pools : BlpopError(p)
    \/ \E p \in Pools : HandlerResolve(p)
    \/ \E p \in Pools : ErrorHandlerResolve(p)
    \/ \E p \in Pools : ErrorHandlerRejectOuter(p)
    \/ \E p \in Pools : StopRpushReply(p)
    \/ \E p \in Pools : StopPoll(p)
    \/ \E p \in Pools : StopReturn(p)
    \/ \E p \in Pools : StopThrow(p)
    \/ \E p \in Pools : start(p)
    \/ \E p \in Pools : stop(p)
    \/ \E p \in Pools, message \in OneMessage, traceId \in TraceIds :
           send(channelName(p), message, traceId)

SpecFaults == InitFaults /\ [][NextFaults]_vars

(***************************************************************************)
(* SpecRpc: two responders (listenAndRespond) on one channel and two       *)
(* callers, each making one sendAndWaitForResponse call.  The store does   *)
(* not fail; the RPC handler may throw.  Every continuation eventually     *)
(* runs, handlers settle, and the 30 seconds of a blocked caller pass.     *)
(***************************************************************************)
InitRpc ==
    /\ cfg = [p \in {"R1", "R2"} |-> [channelName |-> "rpc-test", respond |-> TRUE]]
    /\ store = [key \in {} |-> <<>>]
    /\ appended = 0
    /\ given = <<>>
    /\ sendRejected = 0
    /\ mayFail = 0
    /\ mayThrow = MaxThrows
    /\ calls = [c \in {"c1", "c2"} |-> Call("idle", 0, NoItem)]
    /\ \E limits \in [{"R1", "R2"} -> 1..MaxLimit] : listen({"R1", "R2"}, limits)

NextRpc ==
    \/ \E p \in Pools : StoreServe(p)
    \/ \E p \in Pools : Immediate(p)
    \/ \E p \in Pools : BlpopReply(p)
    \/ \E p \in Pools : HandlerResolve(p)
    \/ \E p \in Pools : HandlerReject(p)
    \/ \E p \in Pools : RespondReply(p)
    \/ \E p \in Pools : ErrorHandlerResolve(p)
    \/ \E c \in Callers, p \in Pools, message \in Messages, traceId \in TraceIds :
           sendAndWaitForResponse(c, channelName(p), message, traceId)
    \/ \E c \in Callers : RpcRpushReply(c)
    \/ \E c \in Callers : StoreServeCall(c)
    \/ \E c \in Callers : RpcTimeout(c)
    \/ \E c \in Callers : RpcBlpopReply(c)
    \/ \E c \in Callers : RpcDelReply(c)

FairRpc ==
    /\ \A p \in {"R1", "R2"} :
        /\ WF_vars(StoreServe(p))
        /\ WF_vars(Immediate(p))
        /\ WF_vars(BlpopReply(p))
        /\ WF_vars(HandlerResolve(p))
        /\ WF_vars(RespondReply(p))
        /\ WF_vars(ErrorHandlerResolve(p))
    /\ \A c \in {"c1", "c2"} :
        /\ WF_vars(RpcRpushReply(c))
        /\ WF_vars(StoreServeCall(c))
        /\ WF_vars(RpcTimeout(c))
        /\ WF_vars(RpcBlpopReply(c))
        /\ WF_vars(RpcDelReply(c))

SpecRpc == InitRpc /\ [][NextRpc]_vars /\ FairRpc

(***************************************************************************)
(* SpecThrows: a running pool that is left alone, whose handler may throw  *)
(* and whose error handler may throw each time it is called: in catch      *)
(* (parseError) and again in the outer catch.                              *)
(***************************************************************************)
InitThrows == OnePool(1..MaxLimit, 0, MaxThrows + 2)

NextThrows ==
    \/ \E p \in Pools : StoreServe(p)
    \/ \E p \in Pools : Immediate(p)
    \/ \E p \in Pools : BlpopReply(p)
    \/ \E p \in Pools : HandlerResolve(p)
    \/ \E p \in Pools : HandlerReject(p)
    \/ \E p \in Pools : ErrorHandlerResolve(p)
    \/ \E p \in Pools : ErrorHandlerRejectInner(p)
    \/ \E p \in Pools : ErrorHandlerRejectOuter(p)
    \/ \E p \in Pools, message \in Messages, traceId \in TraceIds :
           send(channelName(p), message, traceId)

SpecThrows == InitThrows /\ [][NextThrows]_vars

(***************************************************************************)
(* SpecLimit: a pool created with the default initialWorklimit and left    *)
(* Running, whose limit the application changes at any moment, also to 0;  *)
(* producers send messages and a handler may throw.                        *)
(***************************************************************************)
InitLimit == OnePool({1}, 0, MaxThrows)

NextLimit ==
    \/ \E p \in Pools : StoreServe(p)
    \/ \E p \in Pools : Immediate(p)
    \/ \E p \in Pools : BlpopReply(p)
    \/ \E p \in Pools : HandlerResolve(p)
    \/ \E p \in Pools : HandlerReject(p)
    \/ \E p \in Pools : ErrorHandlerResolve(p)
    \/ \E p \in Pools, newLimit \in 0..MaxLimit : setWorklimit(p, newLimit)
    \/ \E p \in Pools, message \in Messages, traceId \in TraceIds :
           send(channelName(p), message, traceId)

SpecLimit == InitLimit /\ [][NextLimit]_vars

(***************************************************************************)
(* SpecUnlimited: a pool created with the default initialWorklimit and     *)
(* left Running, whose limit the application changes, also to 0, and whose *)
(* handler takes as long as it likes: a handler invocation need never      *)
(* complete, every other step is taken once it can be.                     *)
(***************************************************************************)
InitUnlimited == OnePool({1}, 0, 0)

NextUnlimited ==
    \/ \E p \in Pools : StoreServe(p)
    \/ \E p \in Pools : Immediate(p)
    \/ \E p \in Pools : BlpopReply(p)
    \/ \E p \in Pools : HandlerResolve(p)
    \/ \E p \in Pools, newLimit \in 0..MaxLimit : setWorklimit(p, newLimit)
    \/ \E p \in Pools, message \in OneMessage, traceId \in TraceIds :
           send(channelName(p), message, traceId)

FairUnlimited ==
    \A p \in {"A"} :
        /\ WF_vars(StoreServe(p))
        /\ WF_vars(Immediate(p))
        /\ WF_vars(BlpopReply(p))

SpecUnlimited == InitUnlimited /\ [][NextUnlimited]_vars /\ FairUnlimited

(***************************************************************************)
(* SpecShared: two pools, created by two listen calls on the same channel  *)
(* (README, Multiple Listeners), each with one or more pop-loops, left     *)
(* Running; producers send messages, a handler may throw.  Every           *)
(* continuation eventually runs and handlers settle.                       *)
(***************************************************************************)
InitShared ==
    /\ cfg = [p \in {"worker1", "worker2"} |-> [channelName |-> "channel", respond |-> FALSE]]
    /\ store = [key \in {} |-> <<>>]
    /\ appended = 0
    /\ given = <<>>
    /\ sendRejected = 0
    /\ mayFail = 0
    /\ mayThrow = MaxThrows
    /\ calls = [c \in {} |-> Call("idle", 0, NoItem)]
    /\ \E limits \in [{"worker1", "worker2"} -> 1..MaxLimit] :
           listen({"worker1", "worker2"}, limits)

NextShared ==
    \/ \E p \in Pools : StoreServe(p)
    \/ \E p \in Pools : Immediate(p)
    \/ \E p \in Pools : BlpopReply(p)
    \/ \E p \in Pools : HandlerResolve(p)
    \/ \E p \in Pools : HandlerReject(p)
    \/ \E p \in Pools : ErrorHandlerResolve(p)
    \/ \E p \in Pools, message \in Messages, traceId \in TraceIds :
           send(channelName(p), message, traceId)

FairShared ==
    \A p \in {"worker1", "worker2"} :
        /\ WF_vars(StoreServe(p))
        /\ WF_vars(Immediate(p))
        /\ WF_vars(BlpopReply(p))
        /\ WF_vars(HandlerResolve(p))
        /\ WF_vars(ErrorHandlerResolve(p))

SpecShared == InitShared /\ [][NextShared]_vars /\ FairShared

(***************************************************************************)
(* SpecRoundTrip: one responder (listenAndRespond) on the channel          *)
(* "rpc:test", Running, whose handler succeeds, and two callers, each      *)
(* making one sendAndWaitForResponse call with any message and any traceId *)
(* argument.  The store does not fail.                                     *)
(***************************************************************************)
InitRoundTrip ==
    /\ cfg = [p \in {"responder"} |-> [channelName |-> "rpc:test", respond |-> TRUE]]
    /\ store = [key \in {} |-> <<>>]
    /\ appended = 0
    /\ given = <<>>
    /\ sendRejected = 0
    /\ mayFail = 0
    /\ mayThrow = 0
    /\ calls = [c \in {"c1", "c2"} |-> Call("idle", 0, NoItem)]
    /\ \E limits \in [{"responder"} -> 1..MaxLimit] : listen({"responder"}, limits)

NextRoundTrip ==
    \/ \E p \in Pools : StoreServe(p)
    \/ \E p \in Pools : Immediate(p)
    \/ \E p \in Pools : BlpopReply(p)
    \/ \E p \in Pools : HandlerResolve(p)
    \/ \E p \in Pools : RespondReply(p)
    \/ \E c \in Callers, p \in Pools, message \in RpcMessages, traceId \in GivenTraceIds :
           sendAndWaitForResponse(c, channelName(p), message, traceId)
    \/ \E c \in Callers : RpcRpushReply(c)
    \/ \E c \in Callers : StoreServeCall(c)
    \/ \E c \in Callers : RpcTimeout(c)
    \/ \E c \in Callers : RpcBlpopReply(c)
    \/ \E c \in Callers : RpcDelReply(c)

SpecRoundTrip == InitRoundTrip /\ [][NextRoundTrip]_vars

(***************************************************************************)
(* SpecRespond: one responder (listenAndRespond), Running, and two         *)
(* callers.  A request may be malformed (an envelope whose payload is not  *)
(* JSON, sent with send), the RPC handler may throw, and a store command   *)
(* may fail: the rpush of a call, the rpush of a response, the del of a    *)
(* response key.  The error handler does not throw.  Every continuation    *)
(* eventually runs, handlers settle, the timeout of a blocked call passes. *)
(***************************************************************************)
InitRespond ==
    /\ cfg = [p \in {"responder"} |-> [channelName |-> "test-channel", respond |-> TRUE]]
    /\ store = [key \in {} |-> <<>>]
    /\ appended = 0
    /\ given = <<>>
    /\ sendRejected = 0
    /\ mayFail = MaxStoreErrors
    /\ mayThrow = MaxThrows
    /\ calls = [c \in {"c1", "c2"} |-> Call("idle", 0, NoItem)]
    /\ \E limits \in [{"responder"} -> 1..MaxLimit] : listen({"responder"}, limits)

NextRespond ==
    \/ \E p \in Pools : StoreServe(p)
    \/ \E p \in Pools : Immediate(p)
    \/ \E p \in Pools : BlpopReply(p)
    \/ \E p \in Pools : HandlerResolve(p)
    \/ \E p \in Pools : HandlerReject(p)
    \/ \E p \in Pools : RespondReply(p)
    \/ \E p \in Pools : ErrorHandlerResolve(p)
    \/ \E p \in Pools, message \in MalformedRequests, traceId \in TraceIds :
           send(channelName(p), message, traceId)
    \/ \E c \in Callers, p \in Pools, message \in RpcMessages, traceId \in TraceIds :
           sendAndWaitForResponse(c, channelName(p), message, traceId)
    \/ \E c \in Callers : RpcRpushReply(c)
    \/ \E c \in Callers : StoreServeCall(c)
    \/ \E c \in Callers : RpcTimeout(c)
    \/ \E c \in Callers : RpcBlpopReply(c)
    \/ \E c \in Callers : RpcDelReply(c)
    \/ \E c \in Callers : RpcThrow(c)

FairRespond ==
    /\ \A p \in {"responder"} :
        /\ WF_vars(StoreServe(p))
        /\ WF_vars(Immediate(p))
        /\ WF_vars(BlpopReply(p))
        /\ WF_vars(HandlerResolve(p))
        /\ WF_vars(RespondReply(p))
        /\ WF_vars(ErrorHandlerResolve(p))
    /\ \A c \in {"c1", "c2"} :
        /\ WF_vars(RpcRpushReply(c))
        /\ WF_vars(StoreServeCall(c))
        /\ WF_vars(RpcTimeout(c))
        /\ WF_vars(RpcBlpopReply(c))
        /\ WF_vars(RpcDelReply(c))
        /\ WF_vars(RpcThrow(c))

SpecRespond == InitRespond /\ [][NextRespond]_vars /\ FairRespond

(***************************************************************************)
(* SpecCallFaults: one responder (listenAndRespond), Running, whose        *)
(* handler succeeds, and two callers.  A store command may fail: the rpush *)
(* or the blpop of a call, the del of a response key, the rpush of a       *)
(* response.  Every continuation eventually runs, handlers settle, the     *)
(* timeout of a blocked call passes.                                       *)
(***************************************************************************)
InitCallFaults ==
    /\ cfg = [p \in {"responder"} |-> [channelName |-> "test-channel", respond |-> TRUE]]
    /\ store = [key \in {} |-> <<>>]
    /\ appended = 0
    /\ given = <<>>
    /\ sendRejected = 0
    /\ mayFail = MaxStoreErrors
    /\ mayThrow = 0
    /\ calls = [c \in {"c1", "c2"} |-> Call("idle", 0, NoItem)]
    /\ \E limits \in [{"responder"} -> 1..MaxLimit] : listen({"responder"}, limits)

NextCallFaults ==
    \/ \E p \in Pools : StoreServe(p)
    \/ \E p \in Pools : Immediate(p)
    \/ \E p \in Pools : BlpopReply(p)
    \/ \E p \in Pools : HandlerResolve(p)
    \/ \E p \in Pools : RespondReply(p)
    \/ \E p \in Pools : ErrorHandlerResolve(p)
    \/ \E c \in Callers, p \in Pools, message \in RpcMessages, traceId \in TraceIds :
           sendAndWaitForResponse(c, channelName(p), message, traceId)
    \/ \E c \in Callers : RpcRpushReply(c)
    \/ \E c \in Callers : StoreServeCall(c)
    \/ \E c \in Callers : RpcTimeout(c)
    \/ \E c \in Callers : RpcBlpopReply(c)
    \/ \E c \in Callers : RpcDelReply(c)
    \/ \E c \in Callers : RpcBlpopError(c)
    \/ \E c \in Callers : RpcThrow(c)

FairCallFaults ==
    /\ \A p \in {"responder"} :
        /\ WF_vars(StoreServe(p))
        /\ WF_vars(Immediate(p))
        /\ WF_vars(BlpopReply(p))
        /\ WF_vars(HandlerResolve(p))
        /\ WF_vars(RespondReply(p))
        /\ WF_vars(ErrorHandlerResolve(p))
    /\ \A c \in {"c1", "c2"} :
        /\ WF_vars(RpcRpushReply(c))
        /\ WF_vars(StoreServeCall(c))
        /\ WF_vars(RpcTimeout(c))
        /\ WF_vars(RpcBlpopReply(c))
        /\ WF_vars(RpcDelReply(c))
        /\ WF_vars(RpcThrow(c))

SpecCallFaults == InitCallFaults /\ [][NextCallFaults]_vars /\ FairCallFaults

(***************************************************************************)
(* SpecStopFaults: SpecFaults where the continuations that are already     *)
(* queued run: a rejected store command of stop() reaches its catch branch, *)
(* and the store answers a blocked pop it can answer.  Nothing else is     *)
(* forced to happen.                                                       *)
(***************************************************************************)
FairStopFaults ==
    /\ WF_vars(\E p \in Pools : StoreServe(p))
    /\ WF_vars(\E p \in Pools : StopThrow(p))

SpecStopFaults == InitFaults /\ [][NextFaults]_vars /\ FairStopFaults

(***************************************************************************)
(* SpecEnvelope: a running pool that is left alone, on a channel on which  *)
(* send is called with every kind of traceId? argument.  Neither the store *)
(* nor the handler fails.                                                  *)
(***************************************************************************)
InitEnvelope == OnePool(1..MaxLimit, 0, 0)

NextEnvelope ==
    \/ \E p \in Pools : StoreServe(p)
    \/ \E p \in Pools : Immediate(p)
    \/ \E p \in Pools : BlpopReply(p)
    \/ \E p \in Pools : HandlerResolve(p)
    \/ \E p \in Pools, message \in Messages, traceId \in GivenTraceIds :
           send(channelName(p), message, traceId)

SpecEnvelope == InitEnvelope /\ [][NextEnvelope]_vars

(***************************************************************************)
(* SpecSharedStop: the two pools of SpecShared, each of which the          *)
(* application may stop.  Neither the store nor a handler fails.           *)
(***************************************************************************)
InitSharedStop ==
    /\ cfg = [p \in {"worker1", "worker2"} |-> [channelName |-> "channel", respond |-> FALSE]]
    /\ store = [key \in {} |-> <<>>]
    /\ appended = 0
    /\ given = <<>>
    /\ sendRejected = 0
    /\ mayFail = 0
    /\ mayThrow = 0
    /\ calls = [c \in {} |-> Call("idle", 0, NoItem)]
    /\ \E limits \in [{"worker1", "worker2"} -> 1..MaxLimit] :
           listen({"worker1", "worker2"}, limits)

NextSharedStop ==
    \/ \E p \in Pools : StoreServe(p)
    \/ \E p \in Pools : Immediate(p)
    \/ \E p \in Pools : BlpopReply(p)
    \/ \E p \in Pools : HandlerResolve(p)
    \/ \E p \in Pools : StopRpushReply(p)
    \/ \E p \in Pools : StopPoll(p)
    \/ \E p \in Pools : StopReturn(p)
    \/ \E p \in Pools : stop(p)
    \/ \E p \in Pools, message \in OneMessage, traceId \in TraceIds :
           send(channelName(p), message, traceId)

SpecSharedStop == InitSharedStop /\ [][NextSharedStop]_vars

(***************************************************************************)
(* SpecRestart: a pool with one pop-loop that the application stops and    *)
(* starts at any moment, a start() during a pending stop() included.       *)
(* Neither the store nor the handler fails.  Every continuation that is    *)
(* queued eventually runs, handlers settle, and the timer of stop() fires. *)
(***************************************************************************)
InitRestart == OnePool({1}, 0, 0)

NextRestart ==
    \/ \E p \in Pools : StoreServe(p)
    \/ \E p \in Pools : Immediate(p)
    \/ \E p \in Pools : BlpopReply(p)
    \/ \E p \in Pools : HandlerResolve(p)
    \/ \E p \in Pools : StopRpushReply(p)
    \/ \E p \in Pools : StopPoll(p)
    \/ \E p \in Pools : StopReturn(p)
    \/ \E p \in Pools : start(p)
    \/ \E p \in Pools : stop(p)
    \/ \E p \in Pools, message \in OneMessage, traceId \in TraceIds :
           send(channelName(p), message, traceId)

FairRestart ==
    \A p \in {"A"} :
        /\ WF_vars(StoreServe(p))
        /\ WF_vars(Immediate(p))
        /\ WF_vars(BlpopReply(p))
        /\ WF_vars(HandlerResolve(p))
        /\ WF_vars(StopRpushReply(p))
        /\ WF_vars(StopPoll(p))
        /\ WF_vars(StopReturn(p))

SpecRestart == InitRestart /\ [][NextRestart]_vars /\ FairRestart

(***************************************************************************)
(* SpecOutcomes: a pool on which an iteration of a pop-loop can end in     *)
(* every way there is: message handled, malformed item, handler failure,   *)
(* error handler failure, store error, sentinel.  The application calls    *)
(* start, stop and setWorklimit.                                           *)
(***************************************************************************)
InitOutcomes == OnePool(1..MaxLimit, MaxStoreErrors, MaxThrows)

NextOutcomes ==
    \/ \E p \in Pools : StoreServe(p)
    \/ \E p \in Pools : Immediate(p)
    \/ \E p \in Pools : BlpopReply(p)
    \/ \E p \in Pools : BlpopError(p)
    \/ \E p \in Pools : HandlerResolve(p)
    \/ \E p \in Pools : HandlerReject(p)
    \/ \E p \in Pools : ErrorHandlerResolve(p)
    \/ \E p \in Pools : ErrorHandlerRejectInner(p)
    \/ \E p \in Pools : ErrorHandlerRejectOuter(p)
    \/ \E p \in Pools : StopRpushReply(p)
    \/ \E p \in Pools : StopPoll(p)
    \/ \E p \in Pools : StopReturn(p)
    \/ \E p \in Pools : StopThrow(p)
    \/ \E p \in Pools : start(p)
    \/ \E p \in Pools : stop(p)
    \/ \E p \in Pools, newLimit \in 1..MaxLimit : setWorklimit(p, newLimit)
    \/ \E p \in Pools, message \in OneMessage, traceId \in TraceIds :
           send(channelName(p), message, traceId)
    \/ \E p \in Pools, val \in ForeignItems : ForeignPush(channelName(p), val)

SpecOutcomes == InitOutcomes /\ [][NextOutcomes]_vars

(***************************************************************************)
(* SpecDrain: a pool that stays Running with a limit above 0, which the    *)
(* application raises and lowers at any moment; send and foreign producers *)
(* append to its channel.  The store does not fail; handlers and error     *)
(* handlers may throw, and they terminate.  Every continuation that is     *)
(* queued eventually runs.                                                 *)
(***************************************************************************)
InitDrain == OnePool(1..MaxLimit, 0, MaxThrows)

NextDrain ==
    \/ \E p \in Pools : StoreServe(p)
    \/ \E p \in Pools : Immediate(p)
    \/ \E p \in Pools : BlpopReply(p)
    \/ \E p \in Pools : HandlerResolve(p)
    \/ \E p \in Pools : HandlerReject(p)
    \/ \E p \in Pools : ErrorHandlerResolve(p)
    \/ \E p \in Pools : ErrorHandlerRejectInner(p)
    \/ \E p \in Pools, newLimit \in 1..MaxLimit : setWorklimit(p, newLimit)
    \/ \E p \in Pools, message \in Messages, traceId \in TraceIds :
           send(channelName(p), message, traceId)
    \/ \E p \in Pools, val \in ForeignItems : ForeignPush(channelName(p), val)

FairDrain ==
    \A p \in {"A"} :
        /\ WF_vars(StoreServe(p))
        /\ WF_vars(Immediate(p))
        /\ WF_vars(BlpopReply(p))
        /\ WF_vars(HandlerResolve(p))
        /\ WF_vars(ErrorHandlerResolve(p))

SpecDrain == InitDrain /\ [][NextDrain]_vars /\ FairDrain

(***************************************************************************)
(* SpecStale: a pool that the application stops and starts, where a store  *)
(* command of stop() or of send may fail, so that a failed stop() can      *)
(* leave a sentinel behind.  Every continuation that is queued eventually  *)
(* runs and handlers settle.                                               *)
(***************************************************************************)
InitStale == OnePool(1..MaxLimit, MaxStoreErrors, 0)

NextStale ==
    \/ \E p \in Pools : StoreServe(p)
    \/ \E p \in Pools : Immediate(p)
    \/ \E p \in Pools : BlpopReply(p)
    \/ \E p \in Pools : HandlerResolve(p)
    \/ \E p \in Pools : StopRpushReply(p)
    \/ \E p \in Pools : StopPoll(p)
    \/ \E p \in Pools : StopReturn(p)
    \/ \E p \in Pools : StopThrow(p)
    \/ \E p \in Pools : start(p)
    \/ \E p \in Pools : stop(p)
    \/ \E p \in Pools, message \in OneMessage, traceId \in TraceIds :
           send(channelName(p), message, traceId)

FairStale ==
    \A p \in {"A"} :
        /\ WF_vars(StoreServe(p))
        /\ WF_vars(Immediate(p))
        /\ WF_vars(BlpopReply(p))
        /\ WF_vars(HandlerResolve(p))
        /\ WF_vars(StopRpushReply(p))
        /\ WF_vars(StopThrow(p))

SpecStale == InitStale /\ [][NextStale]_vars /\ FairStale

(***************************************************************************)
(* Properties.                                                             *)
(***************************************************************************)

\* C1 (SpecRaise): a pool whose worklimit is above 0 and is never lowered
\* never has more pop-loops in flight than its worklimit, whatever the
\* interleaving of start, stop, raises of the limit, arrivals, handler
\* completions and re-spawns.
C1_ActiveWithinLimit ==
    \A p \in Pools :
        /\ worklimit[p] > 0
        /\ getStats(p).activeWorkers <= getStats(p).worklimit
        /\ BagCardinality(loops[p]) = activeWorkers[p]

\* the pool is at its limit after work was done, with a re-spawn still pending
C1_Witness ==
    \E p \in Pools :
        /\ isRunning[p]
        /\ activeWorkers[p] = MaxLimit
        /\ worklimit[p] = MaxLimit
        /\ immediates[p] > 0
        /\ stopPc[p] = "done"
        /\ handlerDone[p] # {}

Stopped(p) == stopPc[p] = "done" /\ ~isRunning[p]

\* C3 (Spec): after a stop() call has returned and start() was not called
\* again, getStats() reports activeWorkers = 0 and no handler invocation
\* begins.
C3_StoppedIsQuiet ==
    /\ [](\A p \in Pools : Stopped(p) => getStats(p).activeWorkers = 0 /\ loops[p] = EmptyBag)
    /\ [][\A p \in Pools : Stopped(p) => handlerCalls'[p] = handlerCalls[p]]_vars

\* stop() has returned on a pool that had handled a message, and a message waits
C3_Witness ==
    \E p \in Pools :
        /\ Stopped(p)
        /\ handlerCalls[p] # <<>>
        /\ channelName(p) \in DOMAIN store
        /\ worklimit[p] > 0

\* C4 (Spec): a handler that is executing when stop() is called is not
\* aborted: it is still executing or has completed; and stop() does not
\* return before it has completed.
C4_StopAwaitsHandlers ==
    \A p \in Pools :
        /\ \A n \in inHandlerAtStop[p] : n \in InHandler(p) \/ n \in handlerDone[p]
        /\ stopPc[p] = "done" => inHandlerAtStop[p] \subseteq handlerDone[p]

\* stop() was called while a handler was executing, and has returned
C4_Witness ==
    \E p \in Pools : stopPc[p] = "done" /\ inHandlerAtStop[p] # {}

\* C5 (SpecRpc): a sendAndWaitForResponse call whose store commands succeed
\* ends, and ends in exactly one of two ways: it returns a response that was
\* popped from its response key, or it fails with the Timeout error after
\* the store answered null.
C5_ResponseOrTimeout ==
    /\ [](\A c \in Callers :
            /\ calls[c].pc = "returned" => IsString(calls[c].got.val)
            /\ calls[c].pc = "timeout" => calls[c].got = NoItem
            /\ calls[c].pc \notin {"failing", "failed"})
    /\ \A c \in {"c1", "c2"} :
           (calls[c].pc # "idle") ~> (calls[c].pc \in {"returned", "timeout"})

\* one call has returned its response, another has failed with Timeout
C5_Witness ==
    \E c, d \in Callers : calls[c].pc = "returned" /\ calls[d].pc = "timeout"

\* C6 (SpecRpc): with several calls outstanding, every response a caller
\* receives is the result a responder's handler produced for that caller's
\* own request, never the result produced for another call.
C6_NoMisrouting ==
    \A c \in Callers :
        calls[c].got # NoItem =>
            /\ calls[c].got.n = calls[c].n
            /\ \E p \in Pools : calls[c].n \in handlerDone[p]

\* two calls were outstanding together and the later request was answered first
C6_Witness ==
    \E c, d \in Callers :
        /\ calls[c].n < calls[d].n
        /\ calls[c].pc = "blpop"
        /\ calls[c].got = NoItem
        /\ calls[d].pc = "returned"

\* C7 (SpecFifo): with a single listener of worklimit 1 the handler receives
\* the messages in the order they were appended, and an invocation begins
\* only after the invocation for the previous message has returned.
C7_FifoNoOverlap ==
    \A p \in Pools :
        /\ \A i, j \in DOMAIN handlerCalls[p] :
               i < j => handlerCalls[p][i].n < handlerCalls[p][j].n
        /\ \A i \in DOMAIN handlerCalls[p] :
               i < Len(handlerCalls[p]) => handlerCalls[p][i].n \in handlerDone[p]
        /\ Cardinality(InHandler(p)) <= 1

\* "Hello, world!" then "How are you?" were sent and handled in that order
C7_Witness ==
    \E p \in Pools :
        /\ Len(handlerCalls[p]) = 2
        /\ handlerCalls[p][1].payload = Txt("Hello, world!")
        /\ handlerCalls[p][2].payload = Txt("How are you?")
        /\ handlerDone[p] = {1, 2}

\* a blocking pop of the pool has failed with a store error
PopFailed(p) == RedisFailure(NoItem) \in errorCalls[p]

\* C8 (SpecFaults): when a blocking pop has failed with a store error, the
\* pool issues no further blocking pop (unless the application starts it
\* again).
C8_NoPopAfterStoreError ==
    [][\A p \in Pools :
          (PopFailed(p) /\ isRunning'[p] = isRunning[p])
              => CopiesIn(Blocked, loops'[p]) <= CopiesIn(Blocked, loops[p])]_vars

\* the item is not JSON; item n waits on the channel, was given to the handler,
\* was given to the error handler of catch (parseError)
NonJson(val) == IsError(JSONparse(val))
Queued(p, n) == \E i \in DOMAIN Lrange(store, channelName(p)) : store[channelName(p)][i].n = n
Handled(p, n) == \E i \in DOMAIN handlerCalls[p] : handlerCalls[p][i].n = n
Reported(p, n) == \E e \in errorCalls[p] : e.n = n /\ e.error = "Failed to parse message"

\* C9 (SpecItems): a non-JSON item popped from a listened channel goes to
\* the error handler with the error "Failed to parse message" and the raw
\* item, never to the main handler; and the pool goes on: every item on
\* the channel, valid or not, is eventually popped and dispatched.
C9_MalformedToErrorHandler ==
    /\ [](\A p \in Pools :
            /\ \A i \in DOMAIN handlerCalls[p] : ~NonJson(handlerCalls[p][i].raw)
            /\ \A l \in BagToSet(loops[p]) :
                   (l.st \notin {"blpop", "reply"} /\ NonJson(l.item.val))
                       => ParseFailure(l.item) \in errorCalls[p])
    /\ \A p \in {"A"}, n \in 1..MaxSends :
           Queued(p, n) ~> (Handled(p, n) \/ Reported(p, n))

\* a non-JSON item went to the error handler and the valid message appended
\* after it was handled
C9_Witness ==
    \E p \in Pools :
        /\ ParseFailure(Item(Txt("invalid-json"), 1)) \in errorCalls[p]
        /\ Handled(p, 2)
        /\ ~Handled(p, 1)

\* C10 (SpecItems): only serialized Envelopes reach the business handler.
C10_OnlyEnvelopesDelivered ==
    \A p \in Pools : \A i \in DOMAIN handlerCalls[p] : IsEnvelope(handlerCalls[p][i].raw)

\* C11 (SpecThrows): when the handler fails on a message, the failure is
\* reported to the error handler and nothing is thrown out of the pool: no
\* processMessage invocation that handed its message to the handler ends
\* with its promise rejected.
C11_HandlerFailureContained ==
    \A p \in Pools :
        /\ \A l \in LoopsIn(p, "errInner") : Handled(p, l.item.n) => Reported(p, l.item.n)
        /\ \A n \in rejections[p] : ~Handled(p, n)

\* C12 (SpecLimit): a call setWorklimit(n) on a Running pool with n greater
\* than activeWorkers returns with activeWorkers = n, and it takes away no
\* invocation: every pop-loop and every handler in flight before the call
\* is in flight after it.
C12_RaiseFillsToLimit ==
    [][\A p \in Pools, n \in 1..MaxLimit :
          (isRunning[p] /\ n > activeWorkers[p] /\ setWorklimit(p, n))
              => /\ activeWorkers'[p] = n
                 /\ getStats(p)' = [activeWorkers |-> n, worklimit |-> n]
                 /\ InHandler(p)' = InHandler(p)
                 /\ loops[p] \sqsubseteq loops'[p]]_vars

\* the pool was created with one pop-loop; a raise has added a second one
\* next to a handler that is still in flight
C12_Witness ==
    \E p \in Pools :
        /\ isRunning[p]
        /\ activeWorkers[p] = worklimit[p]
        /\ activeWorkers[p] > 1
        /\ InHandler(p) # {}
        /\ LoopsIn(p, "blpop") # {}

\* C13 (SpecLimit): a call setWorklimit(n) with 0 < n < activeWorkers takes
\* no pop-loop and no handler out of the pool and spawns none; and whenever
\* the limit in force after a step is N > 0 and activeWorkers was already
\* N or more, the step has admitted no new pop-loop.
C13_LoweringOnlyThrottles ==
    [][\A p \in Pools :
          /\ \A n \in 1..MaxLimit :
                 (n < activeWorkers[p] /\ setWorklimit(p, n))
                     => /\ loops'[p] = loops[p]
                        /\ activeWorkers'[p] = activeWorkers[p]
          /\ (worklimit'[p] > 0 /\ activeWorkers[p] >= worklimit'[p])
                 => /\ activeWorkers'[p] <= activeWorkers[p]
                    /\ CopiesIn(Blocked, loops'[p]) <= CopiesIn(Blocked, loops[p])]_vars

\* the limit was lowered below the number of active pop-loops, one of which
\* has its handler in flight
C13_Witness ==
    \E p \in Pools :
        /\ worklimit[p] > 0
        /\ activeWorkers[p] > worklimit[p]
        /\ InHandler(p) # {}

\* C14 (SpecLimit): while a limit N > 0 is in force, the handler invocations
\* in progress, those left aside that were already in progress when the
\* limit was last reduced, are never more than N.
C14_HandlersWithinLimit ==
    \A p \in Pools :
        worklimit[p] > 0 =>
            Cardinality(InHandler(p) \ inHandlerAtLower[p]) <= worklimit[p]

\* C15 (Spec): a Running pool whose worklimit is 0 has at least one pop-loop,
\* active or scheduled by setImmediate: listen()/start() with worklimit 0
\* spawn an initial pop-loop.
C15_UnboundedPoolHasLoop ==
    \A p \in Pools :
        (isRunning[p] /\ worklimit[p] = 0) => activeWorkers[p] + immediates[p] >= 1

\* C16 (SpecUnlimited): on a Running pool with worklimit 0, once MaxSends
\* messages have been sent and as long as no handler invocation completes,
\* eventually MaxSends handler invocations are in progress at the same time.
C16_ZeroIsUnlimited ==
    \A p \in {"A"} :
        (isRunning[p] /\ worklimit[p] = 0 /\ appended = MaxSends)
            ~> \/ Cardinality(InHandler(p)) = MaxSends
               \/ handlerDone[p] # {}
               \/ worklimit[p] # 0

\* C17 (Spec): start() on a pool that is not Running, has no active pop-loop
\* and has worklimit N > 0 makes it Running with exactly N pop-loops, all
\* blocked in blpop on its channel, as listen() does when it creates the
\* pool; a pool started again after stop() is in the state of a new pool.
C17_StartSpawnsLimit ==
    /\ \A p \in Pools :
           worklimit[p] > 0 =>
               /\ isRunning[p]
               /\ getStats(p).activeWorkers = worklimit[p]
               /\ loops[p] = Copies(Blocked, worklimit[p])
    /\ [][\A p \in Pools :
             (~isRunning[p] /\ activeWorkers[p] = 0 /\ worklimit[p] > 0 /\ start(p))
                 => /\ isRunning'[p]
                    /\ getStats(p)' = [activeWorkers |-> worklimit[p], worklimit |-> worklimit[p]]
                    /\ loops'[p] = Copies(Blocked, worklimit[p])]_vars

\* stop() has returned, start() was called again, and the pool, with all
\* its pop-loops, is running the handler on a message: no handler was in
\* flight when stop() returned, so this one began after the restart
C17_Witness ==
    \E p \in Pools :
        /\ stopPc[p] = "done"
        /\ isRunning[p]
        /\ worklimit[p] > 0
        /\ activeWorkers[p] = worklimit[p]
        /\ InHandler(p) # {}

\* C18 (Spec): start() on a pool that is already Running spawns no pop-loop
\* and leaves activeWorkers, worklimit and isRunning as they are.
C18_StartIdempotent ==
    [][\A p \in Pools :
          (isRunning[p] /\ start(p))
              => /\ loops'[p] = loops[p]
                 /\ getStats(p)' = getStats(p)
                 /\ isRunning'[p]
                 /\ immediates'[p] = immediates[p]]_vars

\* a Running pool with fewer pop-loops than its limit allows (one has just
\* finished a message and its re-spawn is scheduled): start() can be called
\* here, and a start() that spawned up to the limit would add a pop-loop
C18_Witness ==
    \E p \in Pools :
        /\ Settled
        /\ isRunning[p]
        /\ activeWorkers[p] < worklimit[p]
        /\ immediates[p] > 0
        /\ ENABLED start(p)

\* the handler invocations, of any pool, that were handed item n
Handings(n) ==
    UNION {{<<p, i>> : i \in {j \in DOMAIN handlerCalls[p] : handlerCalls[p][j].n = n}} :
              p \in Pools}

\* C19 (SpecShared): with several pools and several pop-loops on one channel
\* key, every message sent is handed to exactly one handler invocation in
\* total: never to two, of the same pool or of two pools, and eventually
\* to one.
C19_OneHandlerPerMessage ==
    /\ [](\A n \in 1..MaxSends : Cardinality(Handings(n)) <= 1)
    /\ \A n \in 1..MaxSends : (appended >= n) ~> (Cardinality(Handings(n)) = 1)

\* both messages were handled, one by each pool, while a second pop-loop
\* of a pool was blocked on the same key
C19_Witness ==
    /\ \A p \in Pools : Len(handlerCalls[p]) = 1
    /\ \E p \in Pools : worklimit[p] > 1 /\ LoopsIn(p, "blpop") # {}
    /\ \A n \in 1..MaxSends : Cardinality(Handings(n)) = 1

\* the handler was invoked on item n of pool p's channel and threw: the
\* inner catch reported it
HandlerFailed(p, n) == Handled(p, n) /\ Reported(p, n)

\* C20 (SpecThrows): a message whose handler invocation has failed is not
\* lost: it is still on its channel key, or it has been handed to a handler
\* once more.
C20_FailedMessageKept ==
    \A p \in Pools : \A n \in 1..MaxSends :
        HandlerFailed(p, n) => Queued(p, n) \/ Cardinality(Handings(n)) > 1

\* the handler invocation hc was given the message of the call that appended
\* its item, and the trace id of that call when the call was given one
AsGiven(hc) ==
    /\ hc.payload = given[hc.n].message
    /\ given[hc.n].traceId # Undefined => hc.traceId = given[hc.n].traceId

\* C21 (SpecRoundTrip): with a Running responder whose handler succeeds,
\* the handler is invoked with exactly the message and the trace id given
\* to sendAndWaitForResponse, and a call that returns returns exactly what
\* the handler returned for its request.
C21_RpcRoundTrip ==
    /\ \A p \in Pools : \A i \in DOMAIN handlerCalls[p] : AsGiven(handlerCalls[p][i])
    /\ \A c \in Callers :
           calls[c].pc = "returned" =>
               calls[c].got.val = RpcResult(given[calls[c].n].message)

\* the store has answered null to the call's blocking pop
NullReply(c) == calls[c].pc = "reply" /\ calls[c].got = NoItem

RpcErrors == {"SyntaxError", "TypeError", "handler", "Failed to send RPC response"}

\* the wrapper has reported a failure on request n to the error handler
RpcFailed(p, n) == \E e \in errorCalls[p] : e.n = n /\ e.error \in RpcErrors

\* the payload of the envelope that the call given[n] put on the channel
RequestPayload(n) ==
    IF given[n].by = "send" THEN given[n].message
    ELSE RpcPayload(ToString(n), given[n].message)

\* C23 (SpecRespond): when the responder fails on a popped request (the
\* payload does not decode, the handler fails, or the push of the response
\* fails), the error handler is invoked with the error, the raw request
\* payload and the trace id of the envelope; no response is delivered for
\* the request; and the call that made the request ends with the Timeout
\* error.  A request on which the decoding throws never reaches the user
\* handler and is always reported.
C23_ResponderFailureTimesOut ==
    /\ [](\A p \in Pools : \A e \in errorCalls[p] :
            e.error \in RpcErrors =>
                /\ e.message = RequestPayload(e.n)
                /\ e.traceId = OrUuid(given[e.n].traceId)
                /\ responseChannel(ToString(e.n)) \notin DOMAIN store
                /\ \A c \in Callers : calls[c].n = e.n => calls[c].got = NoItem)
    /\ [](\A p \in Pools : \A n \in 1..MaxSends :
            (n <= Len(given) /\ given[n].by = "send") => ~Handled(p, n))
    /\ \A n \in 1..MaxSends :
           (n <= Len(given) /\ given[n].by = "send") ~> RpcFailed("responder", n)
    /\ \A c \in {"c1", "c2"} :
           RpcFailed("responder", calls[c].n) ~> (calls[c].pc = "timeout")

\* the push of a response has failed and the call that asked has ended with
\* Timeout; a malformed request was reported as well
C23_Witness ==
    /\ \E c \in Callers : \E e \in errorCalls["responder"] :
           /\ e.error = "Failed to send RPC response"
           /\ e.n = calls[c].n
           /\ calls[c].pc = "timeout"
    /\ \E e \in errorCalls["responder"] : e.error \in {"SyntaxError", "TypeError"}

\* the response keys of the requests made so far
ResponseKeys == {responseChannel(ToString(n)) : n \in 1..Len(given)}

\* C24 (SpecRoundTrip): for a request whose handler succeeds the responder
\* pushes one item, to the responseChannel named in the request and to no
\* other key, and the item is the record {correlationId, message: result}
\* with the request's correlation id and the handler's result.
C24_ResponseRecord ==
    /\ DOMAIN store \subseteq {"rpc:test"} \cup ResponseKeys
    /\ \A n \in 1..Len(given) :
           responseChannel(ToString(n)) \in DOMAIN store =>
               /\ Len(store[responseChannel(ToString(n))]) = 1
               /\ store[responseChannel(ToString(n))][1].val =
                      JSONstringify(Obj([correlationId |-> Txt(ToString(n)),
                                         message |-> RpcResult(given[n].message)]))

HasResponse(c) == calls[c].pc = "reply" /\ calls[c].got # NoItem

\* C26 (SpecCallFaults): once a response was popped, the call returns that
\* response whether the del of the response key succeeds or fails: the step
\* after the pop leads to the return only, with the response kept, and the
\* return is reached.
C26_CleanupBestEffort ==
    /\ [][\A c \in Callers :
             /\ HasResponse(c) =>
                    /\ calls'[c].pc \in {"reply", "del"}
                    /\ calls'[c].got = calls[c].got
             /\ calls[c].pc = "del" =>
                    /\ calls'[c].pc \in {"del", "returned"}
                    /\ calls'[c].got = calls[c].got]_vars
    /\ \A c \in {"c1", "c2"} : HasResponse(c) ~> (calls[c].pc = "returned")

\* a call has returned its response although a store command has failed;
\* the other caller made no call and the responder reported no failure, so
\* the command that failed is the del of this call's response key
C26_Witness ==
    \E c, d \in Callers :
        /\ calls[c].pc = "returned"
        /\ calls[c].got.val = Pong
        /\ calls[d].pc = "idle"
        /\ mayFail < MaxStoreErrors
        /\ \A p \in Pools : errorCalls[p] = {}

\* the store after one item was appended to the tail of key, every other key
\* as it was, the item being an envelope with the payload message
AppendedTo(key, message) ==
    /\ key \in DOMAIN store'
    /\ DOMAIN store' = DOMAIN store \cup {key}
    /\ \A k \in DOMAIN store \ {key} : store'[k] = store[k]
    /\ Len(store'[key]) = Len(Lrange(store, key)) + 1
    /\ SubSeq(store'[key], 1, Len(Lrange(store, key))) = Lrange(store, key)
    /\ IsEnvelope(store'[key][Len(store'[key])].val)
    /\ Get(JSONparse(store'[key][Len(store'[key])].val), "payload") = message

\* C27 (SpecFaults): a send(channel, message, traceId) call either appends
\* exactly one envelope with the payload message to the tail of the channel
\* key, leaving every other key as it is, and does not fail; or, when the
\* append fails in the store, it fails with an error to its caller and the
\* store is as it was.
C27_SendAppendsOrFails ==
    [][\A channel \in {"test"}, message \in Messages, traceId \in GivenTraceIds :
          send(channel, message, traceId) =>
              \/ /\ mayFail' = mayFail
                 /\ AppendedTo(channel, message)
                 /\ sendRejected' = sendRejected
              \/ /\ mayFail' < mayFail
                 /\ store' = store
                 /\ sendRejected' = sendRejected + 1]_vars

\* one send has failed and another has appended its envelope, while the
\* sentinel key of a stop() was in the store
C27_Witness ==
    /\ sendRejected > 0
    /\ "test" \in DOMAIN store
    /\ "test:trm" \in DOMAIN store

\* C28 (SpecStopFaults): once the rpush of a sentinel or the del of the
\* sentinel key has failed, the stop() call does nothing but throw: it does
\* not return, it pushes and polls no more, and it does throw.
C28_StopFailureThrows ==
    /\ [][\A p \in Pools :
             stopPc[p] \in {"rpushErr", "delErr"} =>
                 /\ stopPc'[p] \in {stopPc[p], "failed"}
                 /\ stopI'[p] = stopI[p]]_vars
    /\ \A p \in {"A"} :
           (stopPc[p] \in {"rpushErr", "delErr"}) ~> (stopPc[p] = "failed")

\* a stop() has thrown while pop-loops of its pool were still active: the
\* push of a sentinel failed
C28_Witness ==
    \E p \in Pools :
        /\ stopPc[p] = "failed"
        /\ activeWorkers[p] > 0
        /\ ~isRunning[p]

\* C29 (SpecEnvelope): every handler invocation of a listening pool is given
\* exactly the message m and the trace id t of the send(channel, m, t) call
\* that appended its item, for every message and every trace id, a call
\* without a trace id aside.
C29_EnvelopeRoundTrip ==
    \A p \in Pools : \A i \in DOMAIN handlerCalls[p] :
        LET hc == handlerCalls[p][i]
            g == given[hc.n]
        IN (g.by = "send" /\ g.traceId # Undefined) =>
               /\ hc.payload = g.message
               /\ hc.traceId = g.traceId

\* C30 (Spec): a stop() call that leaves its loop of pushes has pushed
\* exactly as many sentinels as pop-loops were active when it was called,
\* however the exits of the loops fall between the pushes.
C30_OneSentinelPerActiveLoop ==
    [][\A p \in Pools :
          /\ (stopPc[p] = "rpush" /\ stopPc'[p] \in {"poll", "del"})
                 => stopI[p] + 1 = activeAtStop[p]
          /\ (stop(p) /\ stopPc'[p] \in {"poll", "del"})
                 => activeAtStop'[p] = 0]_vars

\* C31 (SpecSharedStop): with two pools on one channel key, a pop-loop that
\* has popped a shutdown sentinel belongs to a pool whose stop() was called:
\* a sentinel is never taken by a pop-loop of the other pool.
C31_SentinelStaysInPool ==
    \A p \in Pools : \A l \in LoopsIn(p, "reply") :
        l.key = shutdownSignal(p) => stopPc[p] # "idle"

\* C32 (SpecRestart): a stop() call that is pending on a pool that has been
\* started again in the meantime eventually returns.
C32_StopReturnsAfterRestart ==
    \A p \in {"A"} : (StopPending(p) /\ isRunning[p]) ~> (stopPc[p] = "done")

\* C33 (SpecRpc): once a sendAndWaitForResponse call has ended, with a
\* response or with the Timeout error, its response key holds no item.
C33_ResponseKeyEmptyAfterCall ==
    \A c \in Callers :
        calls[c].pc \in {"returned", "timeout"}
            => responseChannel(ToString(calls[c].n)) \notin DOMAIN store

\* C34 (SpecOutcomes): in every reachable state activeWorkers is not
\* negative and equals the number of processMessage invocations that were
\* admitted and have not yet run their finally block, whichever way their
\* iteration ends.
C34_ActiveWorkersCountsLoops ==
    \A p \in Pools :
        /\ activeWorkers[p] >= 0
        /\ activeWorkers[p] = BagCardinality(loops[p])

\* a handler has settled, an error handler has thrown out of processMessage,
\* a stop() has returned, and the pool, started again, has pop-loops
C34_Witness ==
    \E p \in Pools :
        /\ handlerDone[p] # {}
        /\ rejections[p] # {}
        /\ stopPc[p] = "done"
        /\ activeWorkers[p] > 0

\* C35 (Spec): from the stop() call until the next start() call no pop-loop
\* begins a blocking pop: in every step that leaves the pool not Running, the
\* number of its blocking pops that are pending does not grow.
C35_NoNewPopWhileStopped ==
    [][\A p \in Pools :
          ~isRunning'[p] =>
              CopiesIn(Blocked, loops'[p]) <= CopiesIn(Blocked, loops[p])]_vars

\* stop() has been called while a setImmediate(processMessage) callback of
\* the pool was still to run
C35_Witness ==
    \E p \in Pools :
        /\ ~isRunning[p]
        /\ StopPending(p)
        /\ immediates[p] > 0

\* C36 (Spec): once stop() has returned on the only pool of a channel, the
\* shutdown key of the pool holds no sentinel, also when a loop for which a
\* sentinel was pushed has exited without taking it.
C36_NoSentinelAfterStop ==
    \A p \in Pools : stopPc[p] = "done" => shutdownSignal(p) \notin DOMAIN store

\* stop() has returned after a call at which the only pop-loop of the pool
\* was in its handler: the sentinel pushed for it was taken by no loop
C36_Witness ==
    \E p \in Pools :
        /\ stopPc[p] = "done"
        /\ activeAtStop[p] = 1
        /\ inHandlerAtStop[p] # {}
        /\ ~isRunning[p]

\* messages of the channel of p that have left the store and whose handling
\* has neither ended nor been handed to the error handler
InFlight(p) ==
    {n \in 1..appended : ~Queued(p, n) /\ n \notin handlerDone[p] /\ ~Reported(p, n)}

\* C37 (SpecOutcomes): back-pressure stays at the store.  The messages that
\* were popped and are not finished, together with the blocking pops that
\* are pending, are never more than activeWorkers: a pop-loop holds one
\* message at most and has no pop pending while it holds one; and no two
\* handler invocations in progress hold the same message.
C37_BackPressureAtStore ==
    \A p \in Pools :
        /\ Cardinality(InFlight(p)) + CopiesIn(Blocked, loops[p]) <= activeWorkers[p]
        /\ \A l \in LoopsIn(p, "handler") : CopiesIn(l, loops[p]) = 1

\* the only pop-loop is in its handler and the next message waits in the store
C37_Witness ==
    \E p \in Pools :
        /\ activeWorkers[p] = 1
        /\ Cardinality(InFlight(p)) = 1
        /\ LoopsIn(p, "handler") # {}
        /\ \E n \in 1..appended : Queued(p, n)

\* C38 (SpecDrain): on a pool that stays Running with a limit above 0, every
\* item appended to the channel key is eventually popped and handed to the
\* handler or, if it is malformed, to the error handler, whatever the limit
\* was set to in between.
C38_EveryMessageDrained ==
    \A p \in {"A"} : \A n \in 1..MaxSends :
        (appended >= n) ~> (Handled(p, n) \/ Reported(p, n))

\* every item appended has been dispatched on a pool whose limit was lowered
\* below the number of its pop-loops
C38_Witness ==
    \E p \in Pools :
        /\ activeWorkers[p] > worklimit[p]
        /\ appended = MaxSends
        /\ \A n \in 1..MaxSends : Handled(p, n) \/ Reported(p, n)

SentinelReply(p) == \E l \in LoopsIn(p, "reply") : l.key = shutdownSignal(p)

\* C40 (SpecStale): a sentinel that a pop-loop has popped is passed neither
\* to the handler nor to the error handler; the loop that popped it leaves
\* through finally; and when the pool is Running at that moment (the
\* sentinel was left by a failed stop()), the loop is spawned again:
\* activeWorkers comes back to the value it had, unless the pool is stopped.
C40_SentinelOnlyEndsLoop ==
    /\ [](\A p \in Pools :
            /\ \A i \in DOMAIN handlerCalls[p] :
                   handlerCalls[p][i].raw # STOP /\ handlerCalls[p][i].n # 0
            /\ \A e \in errorCalls[p] : e.message # STOP)
    /\ [][\A p \in Pools : \A l \in LoopsIn(p, "reply") :
             (l.key = shutdownSignal(p) /\ CopiesIn(l, loops'[p]) < CopiesIn(l, loops[p]))
                 => /\ activeWorkers'[p] = activeWorkers[p] - 1
                    /\ BagCardinality(loops'[p]) = BagCardinality(loops[p]) - 1
                    /\ isRunning[p] => immediates'[p] = immediates[p] + 1]_vars
    /\ \A p \in {"A"} : \A k \in 1..MaxLimit :
           (isRunning[p] /\ SentinelReply(p) /\ activeWorkers[p] = k)
               ~> (~SentinelReply(p) /\ (activeWorkers[p] >= k \/ ~isRunning[p]))

\* a pop-loop of a Running pool has popped the sentinel that a failed stop()
\* left on the shutdown key
C40_Witness ==
    \E p \in Pools :
        /\ isRunning[p]
        /\ stopPc[p] = "failed"
        /\ SentinelReply(p)

====
